---- MODULE Spec2Model ----
(***************************************************************************)
(* Model of the options-chain analytics engine, class OptionsChainAnalyzer *)
(* of src/services/options-analytics-service/src/optionsChain.ts.          *)
(*                                                                         *)
(* Numbers.  Prices (spot, strike, ltp) are integers counted in ticks of   *)
(* 1/125 of a currency unit, so that 40% of a spot that is a multiple of   *)
(* 125 ticks and a fiftieth of that are whole numbers of ticks and the     *)
(* arithmetic of the payoff chart is exact.  Implied volatility and the    *)
(* risk-free rate are in percent, expiries in days after `now`, times to   *)
(* expiry in 1/365000 of a year.  A ratio is a pair [n, d]; d = 0 stands   *)
(* for a non-finite quotient (n > 0: Infinity, n = 0: NaN).                *)
(* Values of the normal distribution inside the Black-Scholes formulas     *)
(* are symbolic: a record naming the formula and its arguments.  erf and   *)
(* normalCDF on their own are evaluated in fixed point (see ErfUnit).      *)
(***************************************************************************)
EXTENDS Integers, Sequences, FiniteSets, TLC

VARIABLES
    spot,        \* feed: the current spot price of the underlying
    contracts,   \* feed: the snapshot of option contracts (a list of objects)
    pc,          \* what the caller has done: idle, built, failed, analyzed, threw, created, priced, evaluated
    chain,       \* the chain getOptionsChain returned, as its holder has left it
    derived,     \* results of re-deriving max pain, PCR and skew from `chain`
    request,     \* arguments of the analyzeOptionStrategies call
    strategies,  \* what analyzeOptionStrategies / createLongCallStrategy returned
    greeks,      \* the outcomes of the calls of calculateGreeks, in order
    cdf,         \* the outcomes of the calls of normalCDF, in order
    version,     \* feed: the number of the snapshot it currently delivers
    inflight     \* a getOptionsChain call in flight next to the holder of `chain`

vars == <<spot, contracts, pc, chain, derived, request, strategies, greeks,
          cdf, version, inflight>>

---------------------------------------------------------------------------
(* Bounds and input sets *)

MaxContracts == 3
MaxRederive == 2
MaxPremium == 7
MaxPriced == 2
MaxEvaluated == 2
MaxRefresh == 1

Underlying == "XYZ"
Spots == {125, 250, 375}
Strikes == {225, 250, 275}
Expiries == {30, 60}
OptionTypes == {"CALL", "PUT"}
OpenInterests == {0, 1, 3}
Premiums == 0..MaxPremium
Outlooks == {"BULLISH", "BEARISH", "NEUTRAL"}
RiskTolerances == {"LOW", "MEDIUM", "HIGH"}

Infinity == 1000000000
riskFreeRate == 6
DefaultIV == 20
MinTimeToExpiry == 365
Undefined == "undefined"

---------------------------------------------------------------------------
(* Generic helpers *)

Max(a, b) == IF a >= b THEN a ELSE b
Min(a, b) == IF a <= b THEN a ELSE b
Abs(a) == IF a >= 0 THEN a ELSE -a

RECURSIVE SetToSortedSeq(_)
SetToSortedSeq(S) ==
    IF S = {} THEN <<>>
    ELSE LET m == CHOOSE x \in S : \A y \in S : x <= y
         IN <<m>> \o SetToSortedSeq(S \ {m})

Range(s) == {s[i] : i \in 1..Len(s)}

---------------------------------------------------------------------------
(* Symbolic numbers: greeks.  A number supplied by the feed is Lit(v); a   *)
(* number computed by calculateGreeks is the value of the named formula at  *)
(* its arguments plus the constant val.                                     *)

NoArgs == <<0, 0, 0, 0, 0, "">>
Lit(v) == [kind |-> "lit", val |-> v, of |-> NoArgs]
BS(greek, S, K, r, T, sigma, type) ==
    [kind |-> greek, val |-> 0, of |-> <<S, K, r, T, sigma, type>>]
(* x + c: the constant is kept in val *)
Plus(x, c) == [x EXCEPT !.val = @ + c]

(* An OptionContract of the feed (interface OptionContract). *)
Contract(strike, expiry, type, ltp, oi, iv, delta) ==
    [symbol |-> Underlying, strike |-> strike, expiry |-> expiry, type |-> type,
     ltp |-> ltp, openInterest |-> oi, impliedVolatility |-> iv,
     delta |-> Lit(delta),
     gamma |-> Lit(IF delta = 0 THEN 0 ELSE 2),
     theta |-> Lit(IF delta = 0 THEN 0 ELSE -3),
     vega |-> Lit(IF delta = 0 THEN 0 ELSE 4),
     rho |-> Lit(IF delta = 0 THEN 0 ELSE 1)]

---------------------------------------------------------------------------
(* Map<string, OptionContract>: insertion-ordered entries, one per key *)

Key(strike, expiry) == <<strike, expiry>>

MapHas(m, k) == \E i \in 1..Len(m) : m[i].key = k
MapIndex(m, k) == CHOOSE i \in 1..Len(m) : m[i].key = k
MapGet(m, k) == m[MapIndex(m, k)].value
(* mutant: an entry already stored under the key is kept *)
MapSet_firstWins(m, k, v) ==
    IF MapHas(m, k)
    THEN m
    ELSE Append(m, [key |-> k, value |-> v])

MapSet(m, k, v) ==
    IF MapHas(m, k)
    THEN [m EXCEPT ![MapIndex(m, k)] = [key |-> k, value |-> v]]
    ELSE Append(m, [key |-> k, value |-> v])

---------------------------------------------------------------------------
(* Pricing math *)

getTimeToExpiry(expiry) == Max(MinTimeToExpiry, expiry * 1000)

normalPDF(x) == [threw |-> FALSE, value |-> <<"normalPDF", x>>]

(* normalCDF reads this.erf: called without a receiver, `this` is undefined *)
(* (class bodies are strict code) and the property read throws a TypeError. *)
normalCDF(thisArg, x) ==
    [threw |-> thisArg = Undefined, value |-> <<"normalCDF", x>>]

(* The numbers of erf, in fixed point.  The argument x of erf is counted in *)
(* halves, so that the argument of normalCDF is x halves of sqrt(2); values *)
(* of erf and the coefficients a1..a5 are counted in ErfUnit-ths, t and     *)
(* Math.exp(-x * x) in TUnit-ths.                                           *)
ErfUnit == 1000000000
TUnit == 10000
erfA1 == 254829592
erfA2 == -284496736
erfA3 == 1421413741
erfA4 == -1453152027
erfA5 == 1061405429
erfP == 3276

(* Math.exp(-x * x) at x = 0, 1/2, 1, ..., 4, rounded to TUnit-ths *)
ExpNegSquare == <<10000, 7788, 3679, 1054, 183, 19, 1, 0, 0>>
NormalArgs == -(Len(ExpNegSquare) - 1)..(Len(ExpNegSquare) - 1)

(* v * t for v in ErfUnit-ths and t in TUnit-ths, rounded down; no          *)
(* intermediate value leaves 32 bits                                        *)
TimesT(v, t) == (v \div TUnit) * t + ((v % TUnit) * t) \div TUnit

(* mutant: the sign of the argument forgotten *)
erf_noSign(x) ==
    LET ax == Abs(x)
        t == (2 * TUnit * TUnit) \div (2 * TUnit + erfP * ax)
        h5 == TimesT(erfA5, t) + erfA4
        h4 == TimesT(h5, t) + erfA3
        h3 == TimesT(h4, t) + erfA2
        h2 == TimesT(h3, t) + erfA1
        y == ErfUnit - TimesT(TimesT(h2, t), ExpNegSquare[ax + 1])
    IN y

(* lines 439-455 *)
erf(x) ==
    LET sign == IF x >= 0 THEN 1 ELSE -1
        ax == Abs(x)
        t == (2 * TUnit * TUnit) \div (2 * TUnit + erfP * ax)
        h5 == TimesT(erfA5, t) + erfA4
        h4 == TimesT(h5, t) + erfA3
        h3 == TimesT(h4, t) + erfA2
        h2 == TimesT(h3, t) + erfA1
        y == ErfUnit - TimesT(TimesT(h2, t), ExpNegSquare[ax + 1])
    IN sign * y

(* lines 431-433 with the numbers of erf: 0.5 * (1 + erf(x / sqrt 2)),      *)
(* counted in halves of an ErfUnit-th (1.0 is 2 * ErfUnit)                  *)
normalCDFValue(x) == ErfUnit + erf(x)

ZeroGreeks ==
    [delta |-> Lit(0), gamma |-> Lit(0), theta |-> Lit(0), vega |-> Lit(0), rho |-> Lit(0)]

(* mutant: the volatility of the feed taken as it is, 0 included *)
calculateGreeks_noDefault(contract, underlyingPrice) ==
    LET S == underlyingPrice
        K == contract.strike
        r == riskFreeRate
        T == getTimeToExpiry(contract.expiry)
        sigma == contract.impliedVolatility
        d1 == <<"d1", S, K, r, T, sigma>>
        d2 == <<"d2", S, K, r, T, sigma>>
        Nd1 == normalCDF(Undefined, d1)
        Nd2 == normalCDF(Undefined, d2)
        nd1 == normalPDF(d1)
        ty == contract.type
    IN  IF Nd1.threw \/ Nd2.threw \/ nd1.threw
        THEN [threw |-> TRUE, greeks |-> ZeroGreeks, d1 |-> d1]
        ELSE [threw |-> FALSE,
              greeks |-> [delta |-> IF ty = "CALL"
                                    THEN BS("delta", S, K, r, T, sigma, "")
                                    ELSE Plus(BS("delta", S, K, r, T, sigma, ""), -1),
                          gamma |-> BS("gamma", S, K, r, T, sigma, ""),
                          theta |-> BS("theta", S, K, r, T, sigma, ty),
                          vega |-> BS("vega", S, K, r, T, sigma, ""),
                          rho |-> BS("rho", S, K, r, T, sigma, ty)],
              d1 |-> d1]

(* calculateGreeks: [threw, greeks, d1], d1 being the value of line 143 with *)
(* the arguments it was computed from.  `const N = this.normalCDF` detaches  *)
(* the method, so the first N(d1) / N(d2) runs normalCDF with `this`         *)
(* undefined.  The delta is N(d1) for a call and N(d1) - 1 for a put; gamma  *)
(* and vega are computed after the branch on the type.                       *)
calculateGreeks(contract, underlyingPrice) ==
    LET S == underlyingPrice
        K == contract.strike
        r == riskFreeRate
        T == getTimeToExpiry(contract.expiry)
        sigma == IF contract.impliedVolatility # 0
                 THEN contract.impliedVolatility ELSE DefaultIV
        d1 == <<"d1", S, K, r, T, sigma>>
        d2 == <<"d2", S, K, r, T, sigma>>
        Nd1 == normalCDF(Undefined, d1)
        Nd2 == normalCDF(Undefined, d2)
        nd1 == normalPDF(d1)
        ty == contract.type
    IN  IF Nd1.threw \/ Nd2.threw \/ nd1.threw
        THEN [threw |-> TRUE, greeks |-> ZeroGreeks, d1 |-> d1]
        ELSE [threw |-> FALSE,
              greeks |-> [delta |-> IF ty = "CALL"
                                    THEN BS("delta", S, K, r, T, sigma, "")
                                    ELSE Plus(BS("delta", S, K, r, T, sigma, ""), -1),
                          gamma |-> BS("gamma", S, K, r, T, sigma, ""),
                          theta |-> BS("theta", S, K, r, T, sigma, ty),
                          vega |-> BS("vega", S, K, r, T, sigma, ""),
                          rho |-> BS("rho", S, K, r, T, sigma, ty)],
              d1 |-> d1]

---------------------------------------------------------------------------
(* Chain analytics.  A call returns [ret, chain]: the value returned and   *)
(* the chain object as the call leaves it.                                 *)

RECURSIVE SeqSum(_)
SeqSum(s) == IF s = <<>> THEN 0 ELSE Head(s) + SeqSum(Tail(s))

(* mutant: the pain of calls and puts exchanged *)
totalPain_exchanged(ch, strike) ==
    LET callPain == [i \in 1..Len(ch.calls) |->
                       LET call == ch.calls[i].value
                       IN IF call.strike = strike THEN 0
                          ELSE Max(0, call.strike - strike) * call.openInterest]
        putPain == [i \in 1..Len(ch.puts) |->
                       LET put == ch.puts[i].value
                       IN IF put.strike = strike THEN 0
                          ELSE Max(0, strike - put.strike) * put.openInterest]
    IN SeqSum(callPain) + SeqSum(putPain)

(* lines 172-188: the pain of one candidate strike *)
totalPain(ch, strike) ==
    LET callPain == [i \in 1..Len(ch.calls) |->
                       LET call == ch.calls[i].value
                       IN IF call.strike = strike THEN 0
                          ELSE Max(0, strike - call.strike) * call.openInterest]
        putPain == [i \in 1..Len(ch.puts) |->
                       LET put == ch.puts[i].value
                       IN IF put.strike = strike THEN 0
                          ELSE Max(0, put.strike - strike) * put.openInterest]
    IN SeqSum(callPain) + SeqSum(putPain)

(* mutant: <= in place of <, so the last strike of minimal pain wins *)
RECURSIVE maxPainLoop_lastMinimum(_, _, _, _)
maxPainLoop_lastMinimum(ch, i, maxPain, minPain) ==
    IF i > Len(ch.strikes) THEN maxPain
    ELSE LET strike == ch.strikes[i]
             pain == totalPain(ch, strike)
         IN IF pain <= minPain
            THEN maxPainLoop_lastMinimum(ch, i + 1, strike, pain)
            ELSE maxPainLoop_lastMinimum(ch, i + 1, maxPain, minPain)

(* lines 171-194: the loop over chain.strikes, from index i on *)
RECURSIVE maxPainLoop(_, _, _, _)
maxPainLoop(ch, i, maxPain, minPain) ==
    IF i > Len(ch.strikes) THEN maxPain
    ELSE LET strike == ch.strikes[i]
             pain == totalPain(ch, strike)
         IN IF pain < minPain
            THEN maxPainLoop(ch, i + 1, strike, pain)
            ELSE maxPainLoop(ch, i + 1, maxPain, minPain)

calculateMaxPain(ch) ==
    [ret |-> maxPainLoop(ch, 1, 0, Infinity), chain |-> ch]

(* mutant: >= in place of >, dividing by a call interest of 0 *)
calculatePCR_noGuard(ch) ==
    LET totalPutOI == SeqSum([i \in 1..Len(ch.puts) |-> ch.puts[i].value.openInterest])
        totalCallOI == SeqSum([i \in 1..Len(ch.calls) |-> ch.calls[i].value.openInterest])
    IN [ret |-> IF totalCallOI >= 0
                THEN [n |-> totalPutOI, d |-> totalCallOI]
                ELSE [n |-> 0, d |-> 1],
        chain |-> ch]

calculatePCR(ch) ==
    LET totalPutOI == SeqSum([i \in 1..Len(ch.puts) |-> ch.puts[i].value.openInterest])
        totalCallOI == SeqSum([i \in 1..Len(ch.calls) |-> ch.calls[i].value.openInterest])
    IN [ret |-> IF totalCallOI > 0
                THEN [n |-> totalPutOI, d |-> totalCallOI]
                ELSE [n |-> 0, d |-> 1],
        chain |-> ch]

(* Array.prototype.sort with the comparator a.strike - b.strike: a stable   *)
(* insertion of each element after the elements not greater than it.        *)
RECURSIVE InsertByStrike(_, _)
InsertByStrike(sorted, x) ==
    IF sorted = <<>> THEN <<x>>
    ELSE IF x.strike - Head(sorted).strike < 0
         THEN <<x>> \o sorted
         ELSE <<Head(sorted)>> \o InsertByStrike(Tail(sorted), x)

RECURSIVE SortByStrike(_)
SortByStrike(s) ==
    IF s = <<>> THEN <<>>
    ELSE InsertByStrike(SortByStrike(SubSeq(s, 1, Len(s) - 1)), s[Len(s)])

(* chain.expiries[0]?.toISOString(): undefined when there is no expiry;   *)
(* the key then ends in "undefined" (here -1), which no contract's key does. *)
nearestExpiry(ch) ==
    IF Len(ch.expiries) > 0 THEN ch.expiries[1] ELSE -1

(* mutant: the skew taken as callIV - putIV *)
RECURSIVE skewLoop_callMinusPut(_, _, _)
skewLoop_callMinusPut(ch, i, skew) ==
    IF i > Len(ch.strikes) THEN skew
    ELSE LET strike == ch.strikes[i]
             callKey == Key(strike, nearestExpiry(ch))
             putKey == Key(strike, nearestExpiry(ch))
         IN IF MapHas(ch.calls, callKey) /\ MapHas(ch.puts, putKey)
            THEN LET call == MapGet(ch.calls, callKey)
                     put == MapGet(ch.puts, putKey)
                 IN skewLoop_callMinusPut(ch, i + 1,
                      Append(skew, [strike |-> strike,
                                    callIV |-> call.impliedVolatility,
                                    putIV |-> put.impliedVolatility,
                                    skew |-> call.impliedVolatility - put.impliedVolatility]))
            ELSE skewLoop_callMinusPut(ch, i + 1, skew)

RECURSIVE skewLoop(_, _, _)
skewLoop(ch, i, skew) ==
    IF i > Len(ch.strikes) THEN skew
    ELSE LET strike == ch.strikes[i]
             callKey == Key(strike, nearestExpiry(ch))
             putKey == Key(strike, nearestExpiry(ch))
         IN IF MapHas(ch.calls, callKey) /\ MapHas(ch.puts, putKey)
            THEN LET call == MapGet(ch.calls, callKey)
                     put == MapGet(ch.puts, putKey)
                 IN skewLoop(ch, i + 1,
                      Append(skew, [strike |-> strike,
                                    callIV |-> call.impliedVolatility,
                                    putIV |-> put.impliedVolatility,
                                    skew |-> put.impliedVolatility - call.impliedVolatility]))
            ELSE skewLoop(ch, i + 1, skew)

(* mutant: the nearest expiry taken with chain.expiries.shift(), which      *)
(* removes it from the chain *)
calculateVolatilitySkew_shift(ch) ==
    [ret |-> SortByStrike(skewLoop(ch, 1, <<>>)),
     chain |-> [ch EXCEPT !.expiries = IF Len(ch.expiries) > 0
                                       THEN Tail(ch.expiries) ELSE <<>>]]

calculateVolatilitySkew(ch) ==
    [ret |-> SortByStrike(skewLoop(ch, 1, <<>>)), chain |-> ch]

---------------------------------------------------------------------------
(* Chain builder *)

getUnderlyingPrice(underlying) == spot
getOptionContracts(underlying) == contracts
getUniqueExpiries(cs) == SetToSortedSeq({cs[i].expiry : i \in 1..Len(cs)})
getUniqueStrikes(cs) == SetToSortedSeq({cs[i].strike : i \in 1..Len(cs)})

EmptyChain ==
    [underlying |-> Underlying, underlyingPrice |-> 0, expiries |-> <<>>,
     strikes |-> <<>>, calls |-> <<>>, puts |-> <<>>, maxPain |-> 0,
     pcr |-> [n |-> 0, d |-> 1], volatilitySkew |-> <<>>]

(* In the operators below a set {body : x \in {e}} with one element binds  *)
(* x to the value of e, computed once, and TheOne takes the element out.    *)
TheOne(S) == CHOOSE x \in S : TRUE

(* mutant: the delta of every contract computed again from the spot of the *)
(* call and written into the contract object                               *)
organizeOne_recompute(contract, underlyingPrice) ==
    [threw |-> FALSE,
     contract |-> [contract EXCEPT !.delta =
                      BS("delta", underlyingPrice, contract.strike, riskFreeRate,
                         getTimeToExpiry(contract.expiry), contract.impliedVolatility,
                         contract.type)]]

(* lines 110-122: one pass of the loop body; Object.assign writes the greeks *)
(* into the contract object of the feed                                     *)
organizeOne(contract, underlyingPrice) ==
    IF contract.delta = Lit(0)
    THEN TheOne({[threw |-> g.threw,
                  contract |-> [contract EXCEPT !.delta = g.greeks.delta,
                                                !.gamma = g.greeks.gamma,
                                                !.theta = g.greeks.theta,
                                                !.vega = g.greeks.vega,
                                                !.rho = g.greeks.rho]] :
                 g \in {calculateGreeks(contract, underlyingPrice)}})
    ELSE [threw |-> FALSE, contract |-> contract]

(* lines 109-123: organize the contracts, from index i on *)
RECURSIVE organize(_, _, _, _)
organize(cs, i, ch, underlyingPrice) ==
    IF i > Len(cs) THEN [threw |-> FALSE, contracts |-> cs, chain |-> ch]
    ELSE TheOne({
           IF one.threw
           THEN [threw |-> TRUE, contracts |-> cs, chain |-> ch]
           ELSE TheOne({organize(cs2, i + 1, ch2, underlyingPrice) :
                   cs2 \in {[cs EXCEPT ![i] = one.contract]},
                   ch2 \in {IF one.contract.type = "CALL"
                            THEN [ch EXCEPT !.calls =
                                    MapSet(ch.calls,
                                           Key(one.contract.strike, one.contract.expiry),
                                           one.contract)]
                            ELSE [ch EXCEPT !.puts =
                                    MapSet(ch.puts,
                                           Key(one.contract.strike, one.contract.expiry),
                                           one.contract)]}}) :
           one \in {organizeOne(cs[i], underlyingPrice)}})

(* lines 126-129: the derived metrics, each computed from the chain as the  *)
(* call before left it, and stored in the chain                             *)
withMaxPain(ch) ==
    TheOne({[r.chain EXCEPT !.maxPain = r.ret] : r \in {calculateMaxPain(ch)}})
withPCR(ch) ==
    TheOne({[r.chain EXCEPT !.pcr = r.ret] : r \in {calculatePCR(ch)}})
withVolatilitySkew(ch) ==
    TheOne({[r.chain EXCEPT !.volatilitySkew = r.ret] : r \in {calculateVolatilitySkew(ch)}})
deriveMetrics(ch) ==
    TheOne({withVolatilitySkew(c2) :
              c2 \in {TheOne({withPCR(c1) : c1 \in {withMaxPain(ch)}})}})

(* lines 85-133, run without suspension once both fetches have resolved:   *)
(* [threw, contracts, chain]; `contracts` is the list of objects fetched,  *)
(* as the call leaves them.                                                *)
buildChain(underlying, underlyingPrice, cs) ==
    TheOne({IF org.threw THEN org
            ELSE [threw |-> FALSE, contracts |-> org.contracts,
                  chain |-> deriveMetrics(org.chain)] :
            org \in {organize(cs, 1,
                       [EmptyChain EXCEPT
                          !.underlying = underlying,
                          !.underlyingPrice = underlyingPrice,
                          !.expiries = getUniqueExpiries(cs),
                          !.strikes = getUniqueStrikes(cs)],
                       underlyingPrice)}})

(* getOptionsChain with no feed refresh between its two fetches *)
getOptionsChain(underlying) ==
    buildChain(underlying, getUnderlyingPrice(underlying), getOptionContracts(underlying))

---------------------------------------------------------------------------
(* Strategy catalog *)

RatioInfinity == [n |-> 1, d |-> 0]
Ratio(n, d) == IF d < 0 THEN [n |-> -n, d |-> -d] ELSE [n |-> n, d |-> d]

(* mutant: the premium left out of a leg's P&L *)
totalPnL_noPremium(legs, price) ==
    SeqSum([i \in 1..Len(legs) |->
        LET leg == legs[i]
            contract == leg.contract
            optionValue == IF contract.type = "CALL"
                           THEN Max(0, price - contract.strike)
                           ELSE Max(0, contract.strike - price)
        IN IF leg.action = "BUY"
           THEN optionValue * leg.quantity
           ELSE (0 - optionValue) * leg.quantity])

(* mutant: a sold leg valued like a bought one *)
totalPnL_sellAsBuy(legs, price) ==
    SeqSum([i \in 1..Len(legs) |->
        LET leg == legs[i]
            contract == leg.contract
            optionValue == IF contract.type = "CALL"
                           THEN Max(0, price - contract.strike)
                           ELSE Max(0, contract.strike - price)
        IN (optionValue - contract.ltp) * leg.quantity])

(* mutant: the intrinsic values of calls and puts exchanged *)
totalPnL_typesExchanged(legs, price) ==
    SeqSum([i \in 1..Len(legs) |->
        LET leg == legs[i]
            contract == leg.contract
            optionValue == IF contract.type = "CALL"
                           THEN Max(0, contract.strike - price)
                           ELSE Max(0, price - contract.strike)
        IN IF leg.action = "BUY"
           THEN (optionValue - contract.ltp) * leg.quantity
           ELSE (contract.ltp - optionValue) * leg.quantity])

(* lines 407-422: the P&L of all legs at one price *)
totalPnL(legs, price) ==
    SeqSum([i \in 1..Len(legs) |->
        LET leg == legs[i]
            contract == leg.contract
            optionValue == IF contract.type = "CALL"
                           THEN Max(0, price - contract.strike)
                           ELSE Max(0, contract.strike - price)
        IN IF leg.action = "BUY"
           THEN (optionValue - contract.ltp) * leg.quantity
           ELSE (contract.ltp - optionValue) * leg.quantity])

(* lines 404-425: the for loop.  It pushes one sample per price, starting *)
(* at first and adding step while price <= last; with exact arithmetic and *)
(* step > 0 that is a sample for each first + i*step <= last.              *)
payoffLoop(legs, first, last, step) ==
    LET iterations == IF first <= last THEN (last - first) \div step + 1 ELSE 0
    IN [i \in 1..iterations |->
          LET price == first + (i - 1) * step
          IN [underlyingPrice |-> price, pnl |-> totalPnL(legs, price)]]

generatePayoffChart(legs, underlyingPrice) ==
    LET priceRange == (underlyingPrice * 4) \div 10
        step == priceRange \div 50
    IN payoffLoop(legs, underlyingPrice - priceRange, underlyingPrice + priceRange, step)

calculateProbability(currentPrice, targetPrice, expiry) ==
    LET timeToExpiry == getTimeToExpiry(expiry)
        volatility == DefaultIV
        z == <<"z", currentPrice, targetPrice, timeToExpiry, volatility>>
    IN normalCDF("this", z).value

Leg(action, contract, quantity) ==
    [action |-> action, contract |-> contract, quantity |-> quantity]

(* mutant: the breakeven of a put, strike - premium *)
createLongCallStrategy_putBreakeven(call, underlyingPrice) ==
    LET maxLoss == call.ltp
        breakeven == call.strike - call.ltp
    IN [name |-> "Long Call", type |-> "BULLISH", complexity |-> "BASIC",
        legs |-> <<Leg("BUY", call, 1)>>,
        maxProfit |-> Infinity,
        maxLoss |-> maxLoss,
        breakeven |-> <<breakeven>>,
        probability |-> calculateProbability(underlyingPrice, breakeven, call.expiry),
        margin |-> maxLoss,
        collateral |-> 0,
        riskReward |-> RatioInfinity,
        payoffChart |-> generatePayoffChart(<<Leg("BUY", call, 1)>>, underlyingPrice)]

(* mutant: the premium paid booked with the sign of a credit *)
createLongCallStrategy_credit(call, underlyingPrice) ==
    LET maxLoss == 0 - call.ltp
        breakeven == call.strike + call.ltp
    IN [name |-> "Long Call", type |-> "BULLISH", complexity |-> "BASIC",
        legs |-> <<Leg("BUY", call, 1)>>,
        maxProfit |-> Infinity,
        maxLoss |-> maxLoss,
        breakeven |-> <<breakeven>>,
        probability |-> calculateProbability(underlyingPrice, breakeven, call.expiry),
        margin |-> maxLoss,
        collateral |-> 0,
        riskReward |-> RatioInfinity,
        payoffChart |-> generatePayoffChart(<<Leg("BUY", call, 1)>>, underlyingPrice)]

createLongCallStrategy(call, underlyingPrice) ==
    LET maxLoss == call.ltp
        breakeven == call.strike + call.ltp
    IN [name |-> "Long Call", type |-> "BULLISH", complexity |-> "BASIC",
        legs |-> <<Leg("BUY", call, 1)>>,
        maxProfit |-> Infinity,
        maxLoss |-> maxLoss,
        breakeven |-> <<breakeven>>,
        probability |-> calculateProbability(underlyingPrice, breakeven, call.expiry),
        margin |-> maxLoss,
        collateral |-> 0,
        riskReward |-> RatioInfinity,
        payoffChart |-> generatePayoffChart(<<Leg("BUY", call, 1)>>, underlyingPrice)]

(* The other constructors are called by the recommender but not defined in  *)
(* the class; they follow the closed forms of the design document.          *)
Strategy(name, type, complexity, legs, maxProfit, maxLoss, breakeven, collateral, underlyingPrice) ==
    [name |-> name, type |-> type, complexity |-> complexity, legs |-> legs,
     maxProfit |-> maxProfit, maxLoss |-> maxLoss, breakeven |-> breakeven,
     probability |-> calculateProbability(underlyingPrice, breakeven[1],
                                          legs[1].contract.expiry),
     margin |-> maxLoss, collateral |-> collateral,
     riskReward |-> IF maxProfit = Infinity THEN RatioInfinity
                    ELSE Ratio(maxProfit, maxLoss),
     payoffChart |-> generatePayoffChart(legs, underlyingPrice)]

createLongPutStrategy(put, underlyingPrice) ==
    Strategy("Long Put", "BEARISH", "BASIC", <<Leg("BUY", put, 1)>>,
             put.strike - put.ltp, put.ltp, <<put.strike - put.ltp>>, 0, underlyingPrice)

createBullCallSpreadStrategy(longCall, shortCall, underlyingPrice) ==
    LET net == longCall.ltp - shortCall.ltp
    IN Strategy("Bull Call Spread", "BULLISH", "INTERMEDIATE",
                <<Leg("BUY", longCall, 1), Leg("SELL", shortCall, 1)>>,
                (shortCall.strike - longCall.strike) - net, net,
                <<longCall.strike + net>>, 0, underlyingPrice)

createBearPutSpreadStrategy(longPut, shortPut, underlyingPrice) ==
    LET net == longPut.ltp - shortPut.ltp
    IN Strategy("Bear Put Spread", "BEARISH", "INTERMEDIATE",
                <<Leg("BUY", longPut, 1), Leg("SELL", shortPut, 1)>>,
                (longPut.strike - shortPut.strike) - net, net,
                <<longPut.strike - net>>, 0, underlyingPrice)

createCashSecuredPutStrategy(put, underlyingPrice) ==
    Strategy("Cash Secured Put", "BULLISH", "INTERMEDIATE", <<Leg("SELL", put, 1)>>,
             put.ltp, put.strike - put.ltp, <<put.strike - put.ltp>>, put.strike,
             underlyingPrice)

createCoveredCallStrategy(call, underlyingPrice) ==
    Strategy("Covered Call", "BEARISH", "INTERMEDIATE", <<Leg("SELL", call, 1)>>,
             (call.strike - underlyingPrice) + call.ltp, underlyingPrice - call.ltp,
             <<underlyingPrice - call.ltp>>, underlyingPrice, underlyingPrice)

createStraddleStrategy(call, put, underlyingPrice) ==
    LET total == call.ltp + put.ltp
    IN Strategy("Straddle", "NEUTRAL", "INTERMEDIATE",
                <<Leg("BUY", call, 1), Leg("BUY", put, 1)>>,
                Infinity, total, <<call.strike - total, call.strike + total>>, 0,
                underlyingPrice)

---------------------------------------------------------------------------
(* Strike selection *)

(* mutant: <= in place of <, so the last of the closest strikes wins *)
RECURSIVE atmReduce_lastClosest(_, _, _)
atmReduce_lastClosest(ch, i, prev) ==
    IF i > Len(ch.strikes) THEN prev
    ELSE LET curr == ch.strikes[i]
         IN atmReduce_lastClosest(ch, i + 1,
                IF Abs(curr - ch.underlyingPrice) <= Abs(prev - ch.underlyingPrice)
                THEN curr ELSE prev)

(* Array.prototype.reduce without an initial value: a TypeError on an empty *)
(* array, else the first element is the first `prev`.                       *)
RECURSIVE atmReduce(_, _, _)
atmReduce(ch, i, prev) ==
    IF i > Len(ch.strikes) THEN prev
    ELSE LET curr == ch.strikes[i]
         IN atmReduce(ch, i + 1,
                IF Abs(curr - ch.underlyingPrice) < Abs(prev - ch.underlyingPrice)
                THEN curr ELSE prev)

getATMStrike(ch) ==
    IF Len(ch.strikes) = 0 THEN [threw |-> TRUE, ret |-> 0]
    ELSE [threw |-> FALSE, ret |-> atmReduce(ch, 2, ch.strikes[1])]

IndexOf(s, x) == CHOOSE i \in 1..Len(s) : s[i] = x /\ \A j \in 1..(i - 1) : s[j] # x

(* mutant: the directions of CALL and PUT exchanged *)
getOTMStrike_exchanged(ch, type, steps) ==
    LET atmStrike == getATMStrike(ch).ret
        sortedStrikes == SetToSortedSeq(Range(ch.strikes))
        atmIndex == IndexOf(sortedStrikes, atmStrike)
    IN IF type = "PUT"
       THEN sortedStrikes[Min(atmIndex + steps, Len(sortedStrikes))]
       ELSE sortedStrikes[Max(atmIndex - steps, 1)]

(* called only after getATMStrike(chain) has returned in the caller *)
getOTMStrike(ch, type, steps) ==
    LET atmStrike == getATMStrike(ch).ret
        sortedStrikes == SetToSortedSeq(Range(ch.strikes))
        atmIndex == IndexOf(sortedStrikes, atmStrike)
    IN IF type = "CALL"
       THEN sortedStrikes[Min(atmIndex + steps, Len(sortedStrikes))]
       ELSE sortedStrikes[Max(atmIndex - steps, 1)]

(* Iron condor and butterfly: not defined in the class; four and three legs *)
(* at differing strikes around the ATM strike, none when a leg is missing.  *)
createIronCondorStrategy(ch, atmStrike, nearExpiry) ==
    LET sorted == SetToSortedSeq(Range(ch.strikes))
        i == IndexOf(sorted, atmStrike)
    IN IF i - 2 >= 1 /\ i + 2 <= Len(sorted)
          /\ MapHas(ch.puts, Key(sorted[i - 2], nearExpiry))
          /\ MapHas(ch.puts, Key(sorted[i - 1], nearExpiry))
          /\ MapHas(ch.calls, Key(sorted[i + 1], nearExpiry))
          /\ MapHas(ch.calls, Key(sorted[i + 2], nearExpiry))
       THEN LET longPut == MapGet(ch.puts, Key(sorted[i - 2], nearExpiry))
                shortPut == MapGet(ch.puts, Key(sorted[i - 1], nearExpiry))
                shortCall == MapGet(ch.calls, Key(sorted[i + 1], nearExpiry))
                longCall == MapGet(ch.calls, Key(sorted[i + 2], nearExpiry))
                credit == shortPut.ltp + shortCall.ltp - longPut.ltp - longCall.ltp
                width == Max(shortPut.strike - longPut.strike,
                             longCall.strike - shortCall.strike)
            IN <<Strategy("Iron Condor", "NEUTRAL", "ADVANCED",
                          <<Leg("SELL", shortPut, 1), Leg("BUY", longPut, 1),
                            Leg("SELL", shortCall, 1), Leg("BUY", longCall, 1)>>,
                          credit, width - credit,
                          <<shortPut.strike - credit, shortCall.strike + credit>>, 0,
                          ch.underlyingPrice)>>
       ELSE <<>>

createButterflySpreadStrategy(ch, atmStrike, nearExpiry) ==
    LET sorted == SetToSortedSeq(Range(ch.strikes))
        i == IndexOf(sorted, atmStrike)
    IN IF i - 1 >= 1 /\ i + 1 <= Len(sorted)
          /\ MapHas(ch.calls, Key(sorted[i - 1], nearExpiry))
          /\ MapHas(ch.calls, Key(sorted[i], nearExpiry))
          /\ MapHas(ch.calls, Key(sorted[i + 1], nearExpiry))
       THEN LET lower == MapGet(ch.calls, Key(sorted[i - 1], nearExpiry))
                body == MapGet(ch.calls, Key(sorted[i], nearExpiry))
                upper == MapGet(ch.calls, Key(sorted[i + 1], nearExpiry))
                debit == lower.ltp + upper.ltp - 2 * body.ltp
            IN <<Strategy("Butterfly Spread", "NEUTRAL", "ADVANCED",
                          <<Leg("BUY", lower, 1), Leg("SELL", body, 2),
                            Leg("BUY", upper, 1)>>,
                          (body.strike - lower.strike) - debit, debit,
                          <<lower.strike + debit, upper.strike - debit>>, 0,
                          ch.underlyingPrice)>>
       ELSE <<>>

---------------------------------------------------------------------------
(* Strategy recommender.  generate* return [threw, ret, chain]: the list of *)
(* strategies and the chain object as the call leaves it; getATMStrike on a *)
(* chain without strikes and nearExpiry.toISOString() on a chain without    *)
(* expiries throw a TypeError.                                              *)

Threw == [threw |-> TRUE, ret |-> <<>>]
Returned(v) == [threw |-> FALSE, ret |-> v]
(* the outcome r of a generator next to the chain object as it leaves it *)
LeftAs(r, ch) == [threw |-> r.threw, ret |-> r.ret, chain |-> ch]

(* mutant: the cash-secured put offered to every tolerance but LOW *)
generateBullishStrategies_notLow(ch, riskTolerance) ==
    IF getATMStrike(ch).threw \/ Len(ch.expiries) = 0 THEN LeftAs(Threw, ch)
    ELSE LET atmStrike == getATMStrike(ch).ret
             nearExpiry == ch.expiries[1]
             hasAtmCall == MapHas(ch.calls, Key(atmStrike, nearExpiry))
             longCall == IF hasAtmCall
                         THEN <<createLongCallStrategy(
                                  MapGet(ch.calls, Key(atmStrike, nearExpiry)),
                                  ch.underlyingPrice)>>
                         ELSE <<>>
             otmStrike == getOTMStrike(ch, "CALL", 1)
             hasOtmCall == MapHas(ch.calls, Key(otmStrike, nearExpiry))
             spread == IF hasAtmCall /\ hasOtmCall
                       THEN <<createBullCallSpreadStrategy(
                                MapGet(ch.calls, Key(atmStrike, nearExpiry)),
                                MapGet(ch.calls, Key(otmStrike, nearExpiry)),
                                ch.underlyingPrice)>>
                       ELSE <<>>
             otmPutStrike == getOTMStrike(ch, "PUT", 1)
             csp == IF riskTolerance # "LOW"
                       /\ MapHas(ch.puts, Key(otmPutStrike, nearExpiry))
                    THEN <<createCashSecuredPutStrategy(
                             MapGet(ch.puts, Key(otmPutStrike, nearExpiry)),
                             ch.underlyingPrice)>>
                    ELSE <<>>
         IN LeftAs(Returned(longCall \o spread \o csp), ch)

(* mutant: the spread built with its two calls exchanged *)
generateBullishStrategies_exchanged(ch, riskTolerance) ==
    IF getATMStrike(ch).threw \/ Len(ch.expiries) = 0 THEN LeftAs(Threw, ch)
    ELSE LET atmStrike == getATMStrike(ch).ret
             nearExpiry == ch.expiries[1]
             hasAtmCall == MapHas(ch.calls, Key(atmStrike, nearExpiry))
             longCall == IF hasAtmCall
                         THEN <<createLongCallStrategy(
                                  MapGet(ch.calls, Key(atmStrike, nearExpiry)),
                                  ch.underlyingPrice)>>
                         ELSE <<>>
             otmStrike == getOTMStrike(ch, "CALL", 1)
             hasOtmCall == MapHas(ch.calls, Key(otmStrike, nearExpiry))
             spread == IF hasAtmCall /\ hasOtmCall
                       THEN <<createBullCallSpreadStrategy(
                                MapGet(ch.calls, Key(otmStrike, nearExpiry)),
                                MapGet(ch.calls, Key(atmStrike, nearExpiry)),
                                ch.underlyingPrice)>>
                       ELSE <<>>
             otmPutStrike == getOTMStrike(ch, "PUT", 1)
             csp == IF riskTolerance = "HIGH"
                       /\ MapHas(ch.puts, Key(otmPutStrike, nearExpiry))
                    THEN <<createCashSecuredPutStrategy(
                             MapGet(ch.puts, Key(otmPutStrike, nearExpiry)),
                             ch.underlyingPrice)>>
                    ELSE <<>>
         IN LeftAs(Returned(longCall \o spread \o csp), ch)

generateBullishStrategies(ch, riskTolerance) ==
    IF getATMStrike(ch).threw \/ Len(ch.expiries) = 0 THEN LeftAs(Threw, ch)
    ELSE LET atmStrike == getATMStrike(ch).ret
             nearExpiry == ch.expiries[1]
             hasAtmCall == MapHas(ch.calls, Key(atmStrike, nearExpiry))
             longCall == IF hasAtmCall
                         THEN <<createLongCallStrategy(
                                  MapGet(ch.calls, Key(atmStrike, nearExpiry)),
                                  ch.underlyingPrice)>>
                         ELSE <<>>
             otmStrike == getOTMStrike(ch, "CALL", 1)
             hasOtmCall == MapHas(ch.calls, Key(otmStrike, nearExpiry))
             spread == IF hasAtmCall /\ hasOtmCall
                       THEN <<createBullCallSpreadStrategy(
                                MapGet(ch.calls, Key(atmStrike, nearExpiry)),
                                MapGet(ch.calls, Key(otmStrike, nearExpiry)),
                                ch.underlyingPrice)>>
                       ELSE <<>>
             otmPutStrike == getOTMStrike(ch, "PUT", 1)
             csp == IF riskTolerance = "HIGH"
                       /\ MapHas(ch.puts, Key(otmPutStrike, nearExpiry))
                    THEN <<createCashSecuredPutStrategy(
                             MapGet(ch.puts, Key(otmPutStrike, nearExpiry)),
                             ch.underlyingPrice)>>
                    ELSE <<>>
         IN LeftAs(Returned(longCall \o spread \o csp), ch)

(* mutant: the near expiry taken with chain.expiries.shift() *)
generateBearishStrategies_shift(ch, riskTolerance) ==
    IF getATMStrike(ch).threw \/ Len(ch.expiries) = 0 THEN LeftAs(Threw, ch)
    ELSE LET atmStrike == getATMStrike(ch).ret
             nearExpiry == ch.expiries[1]
             hasAtmPut == MapHas(ch.puts, Key(atmStrike, nearExpiry))
             longPut == IF hasAtmPut
                        THEN <<createLongPutStrategy(
                                 MapGet(ch.puts, Key(atmStrike, nearExpiry)),
                                 ch.underlyingPrice)>>
                        ELSE <<>>
             otmStrike == getOTMStrike(ch, "PUT", 1)
             hasOtmPut == MapHas(ch.puts, Key(otmStrike, nearExpiry))
             spread == IF hasAtmPut /\ hasOtmPut
                       THEN <<createBearPutSpreadStrategy(
                                MapGet(ch.puts, Key(atmStrike, nearExpiry)),
                                MapGet(ch.puts, Key(otmStrike, nearExpiry)),
                                ch.underlyingPrice)>>
                       ELSE <<>>
             otmCallStrike == getOTMStrike(ch, "CALL", 1)
             cc == IF riskTolerance = "HIGH"
                      /\ MapHas(ch.calls, Key(otmCallStrike, nearExpiry))
                   THEN <<createCoveredCallStrategy(
                            MapGet(ch.calls, Key(otmCallStrike, nearExpiry)),
                            ch.underlyingPrice)>>
                   ELSE <<>>
         IN LeftAs(Returned(longPut \o spread \o cc),
                   [ch EXCEPT !.expiries = Tail(ch.expiries)])

generateBearishStrategies(ch, riskTolerance) ==
    IF getATMStrike(ch).threw \/ Len(ch.expiries) = 0 THEN LeftAs(Threw, ch)
    ELSE LET atmStrike == getATMStrike(ch).ret
             nearExpiry == ch.expiries[1]
             hasAtmPut == MapHas(ch.puts, Key(atmStrike, nearExpiry))
             longPut == IF hasAtmPut
                        THEN <<createLongPutStrategy(
                                 MapGet(ch.puts, Key(atmStrike, nearExpiry)),
                                 ch.underlyingPrice)>>
                        ELSE <<>>
             otmStrike == getOTMStrike(ch, "PUT", 1)
             hasOtmPut == MapHas(ch.puts, Key(otmStrike, nearExpiry))
             spread == IF hasAtmPut /\ hasOtmPut
                       THEN <<createBearPutSpreadStrategy(
                                MapGet(ch.puts, Key(atmStrike, nearExpiry)),
                                MapGet(ch.puts, Key(otmStrike, nearExpiry)),
                                ch.underlyingPrice)>>
                       ELSE <<>>
             otmCallStrike == getOTMStrike(ch, "CALL", 1)
             cc == IF riskTolerance = "HIGH"
                      /\ MapHas(ch.calls, Key(otmCallStrike, nearExpiry))
                   THEN <<createCoveredCallStrategy(
                            MapGet(ch.calls, Key(otmCallStrike, nearExpiry)),
                            ch.underlyingPrice)>>
                   ELSE <<>>
         IN LeftAs(Returned(longPut \o spread \o cc), ch)

generateNeutralStrategies(ch, riskTolerance) ==
    IF getATMStrike(ch).threw \/ Len(ch.expiries) = 0 THEN LeftAs(Threw, ch)
    ELSE LET atmStrike == getATMStrike(ch).ret
             nearExpiry == ch.expiries[1]
             condor == createIronCondorStrategy(ch, atmStrike, nearExpiry)
             straddle == IF MapHas(ch.calls, Key(atmStrike, nearExpiry))
                            /\ MapHas(ch.puts, Key(atmStrike, nearExpiry))
                         THEN <<createStraddleStrategy(
                                  MapGet(ch.calls, Key(atmStrike, nearExpiry)),
                                  MapGet(ch.puts, Key(atmStrike, nearExpiry)),
                                  ch.underlyingPrice)>>
                         ELSE <<>>
             butterfly == createButterflySpreadStrategy(ch, atmStrike, nearExpiry)
         IN LeftAs(Returned(condor \o straddle \o butterfly), ch)

(* The comparator (a, b) => b.riskReward - a.riskReward: the sign of the    *)
(* difference, 0 when it is NaN (Infinity - Infinity, or a NaN operand).    *)
riskRewardCompare(a, b) ==
    LET x == b.riskReward
        y == a.riskReward
        diff == IF x.d = 0 /\ y.d = 0 /\ x.n * y.n < 0
                THEN x.n
                ELSE x.n * y.d - y.n * x.d
    IN IF diff < 0 THEN -1 ELSE IF diff > 0 THEN 1 ELSE 0

RECURSIVE InsertByRiskReward(_, _)
InsertByRiskReward(sorted, x) ==
    IF sorted = <<>> THEN <<x>>
    ELSE IF riskRewardCompare(x, Head(sorted)) < 0
         THEN <<x>> \o sorted
         ELSE <<Head(sorted)>> \o InsertByRiskReward(Tail(sorted), x)

RECURSIVE SortByRiskReward(_)
SortByRiskReward(s) ==
    IF s = <<>> THEN <<>>
    ELSE InsertByRiskReward(SortByRiskReward(SubSeq(s, 1, Len(s) - 1)), s[Len(s)])

(* lines 247-268: the switch on the outlook and the sort; `chain` is the   *)
(* chain of line 244 as the generator leaves it                            *)
recommend(built, marketOutlook, riskTolerance) ==
    TheOne({IF built.threw \/ gen.threw
            THEN [threw |-> TRUE, contracts |-> built.contracts, ret |-> <<>>,
                  chain |-> gen.chain]
            ELSE [threw |-> FALSE, contracts |-> built.contracts,
                  ret |-> SortByRiskReward(gen.ret), chain |-> gen.chain] :
            gen \in {IF built.threw THEN LeftAs(Threw, EmptyChain)
                     ELSE IF marketOutlook = "BULLISH"
                     THEN generateBullishStrategies(built.chain, riskTolerance)
                     ELSE IF marketOutlook = "BEARISH"
                     THEN generateBearishStrategies(built.chain, riskTolerance)
                     ELSE generateNeutralStrategies(built.chain, riskTolerance)}})

(* analyzeOptionStrategies: [threw, contracts, ret, chain] *)
analyzeOptionStrategies(underlying, marketOutlook, riskTolerance) ==
    TheOne({recommend(built, marketOutlook, riskTolerance) :
            built \in {getOptionsChain(underlying)}})

---------------------------------------------------------------------------
(* Feeds: the snapshots the collaborator can deliver *)

Feeds(universe) == UNION {[1..n -> universe] : n \in 0..MaxContracts}

SyntheticIV(type, oi) == 20 + (IF type = "PUT" THEN 3 ELSE 0) + 2 * oi
SyntheticPremium(strike, type, underlyingPrice) ==
    5 + (IF type = "CALL" THEN Max(0, underlyingPrice - strike)
                          ELSE Max(0, strike - underlyingPrice))

(* contracts of one expiry that differ in strike, type and open interest *)
AnalyticsContracts ==
    {Contract(k, 30, t, SyntheticPremium(k, t, 250), oi, SyntheticIV(t, oi), 50) :
        k \in Strikes, t \in OptionTypes, oi \in OpenInterests}

(* contracts that differ in strike, expiry, type and implied volatility *)
SkewContracts ==
    {Contract(k, e, t, SyntheticPremium(k, t, 250), 1, iv, 50) :
        k \in {225, 250}, e \in Expiries, t \in OptionTypes, iv \in {20, 25}}

(* contracts that differ in the greeks and the volatility the feed supplies *)
BuilderContracts ==
    {Contract(k, 30, t, SyntheticPremium(k, t, 250), 1, iv, delta) :
        k \in {225, 250}, t \in OptionTypes, iv \in {0, 25}, delta \in {0, 50}}

(* contracts with greeks supplied: every strike and type at the near expiry, *)
(* the middle strike at the far expiry too                                   *)
RecommenderContracts ==
    {Contract(k, 30, t, SyntheticPremium(k, t, 250), 1, SyntheticIV(t, 1), 50) :
        k \in Strikes, t \in OptionTypes}
    \cup {Contract(250, 60, t, SyntheticPremium(250, t, 250) + 2, 1, SyntheticIV(t, 1), 50) :
        t \in OptionTypes}

(* the contracts of the end-to-end scenario (100 = 12500 ticks): calls of   *)
(* open interest 500 and puts of open interest 800 at strikes 95 and 105,  *)
(* premium 3, greeks supplied                                              *)
ScenarioSpot == 12500
ScenarioContract(strike, type) ==
    Contract(strike, 30, type, 375, IF type = "CALL" THEN 500 ELSE 800,
             IF type = "CALL" THEN 25 ELSE 28, 50)
ScenarioContracts ==
    {ScenarioContract(k, t) : k \in {11875, 13125}, t \in OptionTypes}

(* input the builder is to refuse or drop: spots that are not positive,     *)
(* contracts of another underlying, contracts that expired 5 days ago       *)
OtherUnderlying == "ABC"
ValidationSpots == {-125, 0, 250}
ValidationContracts ==
    {[Contract(k, e, t, SyntheticPremium(k, t, 250), 1, 25, 50) EXCEPT !.symbol = sym] :
        sym \in {Underlying, OtherUnderlying}, k \in {225, 250}, e \in {-5, 30},
        t \in OptionTypes}

(* a call and a put that agree in everything but the type, greeks missing; *)
(* expired 5 days ago, expiring now, in one day or in 30, with and without *)
(* an implied volatility                                                   *)
PricingExpiries == {-5, 0, 1, 30}
PricingContract(strike, expiry, type, iv) ==
    Contract(strike, expiry, type, SyntheticPremium(strike, type, 250), 1, iv, 0)
PricingFeeds ==
    {<<PricingContract(k, e, "CALL", iv), PricingContract(k, e, "PUT", iv)>> :
        k \in {225, 250}, e \in PricingExpiries, iv \in {0, 25}}

(* snapshots that differ in the spot price; calls and puts of one strike,  *)
(* with and without greeks                                                 *)
RefreshSpots == {250, 375}
RefreshContracts ==
    {Contract(250, 30, t, SyntheticPremium(250, t, 250), 1, 25, delta) :
        t \in OptionTypes, delta \in {0, 50}}

(* calls that differ in strike and premium *)
CatalogCalls ==
    {Contract(k, 30, "CALL", p, 1, 25, 50) : k \in Strikes, p \in Premiums}

NoRequest == [marketOutlook |-> "", riskTolerance |-> ""]

(* no getOptionsChain call in flight *)
NoCall ==
    [stage |-> "none", underlyingPrice |-> 0, priceVersion |-> 0,
     count |-> 0, contractsVersion |-> 0, chain |-> EmptyChain]

InitWith(spots, feeds) ==
    /\ spot \in spots
    /\ contracts \in feeds
    /\ pc = "idle"
    /\ chain = EmptyChain
    /\ derived = <<>>
    /\ request = NoRequest
    /\ strategies = <<>>
    /\ greeks = <<>>
    /\ cdf = <<>>
    /\ version = 0
    /\ inflight = NoCall

---------------------------------------------------------------------------
(* Operations *)

(* A caller awaits getOptionsChain(underlying). *)
GetOptionsChain ==
    /\ pc = "idle"
    /\ \E r \in {getOptionsChain(Underlying)} :
          /\ contracts' = r.contracts
          /\ IF r.threw
             THEN pc' = "failed" /\ chain' = chain
             ELSE pc' = "built" /\ chain' = r.chain
    /\ UNCHANGED <<spot, derived, request, strategies, greeks, cdf, version, inflight>>

(* The holder of a built chain derives max pain, PCR and skew from it again. *)
Rederive ==
    /\ pc = "built"
    /\ Len(derived) < MaxRederive
    /\ \E mp \in {calculateMaxPain(chain)} :
       \E pr \in {calculatePCR(mp.chain)} :
       \E sk \in {calculateVolatilitySkew(pr.chain)} :
          /\ derived' = Append(derived,
                [maxPain |-> mp.ret, pcr |-> pr.ret, volatilitySkew |-> sk.ret])
          /\ chain' = sk.chain
    /\ UNCHANGED <<spot, contracts, pc, request, strategies, greeks, cdf, version, inflight>>

(* A caller awaits analyzeOptionStrategies(underlying, outlook, tolerance). *)
AnalyzeOptionStrategies ==
    /\ pc = "idle"
    /\ \E marketOutlook \in Outlooks, riskTolerance \in RiskTolerances :
         \E r \in {analyzeOptionStrategies(Underlying, marketOutlook, riskTolerance)} :
            /\ request' = [marketOutlook |-> marketOutlook,
                           riskTolerance |-> riskTolerance]
            /\ contracts' = r.contracts
            /\ strategies' = r.ret
            /\ chain' = r.chain
            /\ pc' = IF r.threw THEN "threw" ELSE "analyzed"
    /\ UNCHANGED <<spot, derived, greeks, cdf, version, inflight>>

(* The catalog's long-call constructor applied to a call of the feed. *)
CreateLongCall ==
    /\ pc = "idle"
    /\ \E i \in 1..Len(contracts) :
         /\ contracts[i].type = "CALL"
         /\ strategies' = <<createLongCallStrategy(contracts[i], spot)>>
    /\ pc' = "created"
    /\ UNCHANGED <<spot, contracts, chain, derived, request, greeks, cdf, version, inflight>>

(* calculateGreeks applied to a contract of the feed at the current spot. *)
CalculateGreeks ==
    /\ pc \in {"idle", "priced"}
    /\ Len(greeks) < MaxPriced
    /\ \E i \in 1..Len(contracts) :
         \E g \in {calculateGreeks(contracts[i], spot)} :
            greeks' = Append(greeks, [contract |-> contracts[i], threw |-> g.threw,
                                      greeks |-> g.greeks, d1 |-> g.d1])
    /\ pc' = "priced"
    /\ UNCHANGED <<spot, contracts, chain, derived, request, strategies, cdf, version, inflight>>

(* The collaborator delivers the next snapshot: another spot price and a   *)
(* contract list that keeps the objects delivered before and may hold one  *)
(* more.                                                                   *)
FeedRefresh ==
    /\ version < MaxRefresh
    /\ version' = version + 1
    /\ spot' \in RefreshSpots \ {spot}
    /\ \E more \in {<<>>} \cup {<<c>> : c \in RefreshContracts} :
          /\ Len(contracts) + Len(more) <= MaxContracts
          /\ contracts' = contracts \o more
    /\ UNCHANGED <<pc, chain, derived, request, strategies, greeks, cdf, inflight>>

(* line 82 of a second getOptionsChain call: the spot price is fetched. *)
AwaitUnderlyingPrice ==
    /\ inflight.stage = "none"
    /\ inflight' = [inflight EXCEPT !.stage = "price",
                                    !.underlyingPrice = getUnderlyingPrice(Underlying),
                                    !.priceVersion = version]
    /\ UNCHANGED <<spot, contracts, pc, chain, derived, request, strategies, greeks,
                   cdf, version>>

(* lines 83-133 of that call: the contracts are fetched and the chain is   *)
(* built from the price fetched before.                                    *)
AwaitOptionContracts ==
    /\ inflight.stage = "price"
    /\ \E r \in {buildChain(Underlying, inflight.underlyingPrice,
                             getOptionContracts(Underlying))} :
          /\ contracts' = r.contracts
          /\ inflight' = [inflight EXCEPT
                            !.stage = IF r.threw THEN "rejected" ELSE "returned",
                            !.count = Len(r.contracts),
                            !.contractsVersion = version,
                            !.chain = IF r.threw THEN EmptyChain ELSE r.chain]
    /\ UNCHANGED <<spot, pc, chain, derived, request, strategies, greeks, cdf, version>>

(* normalCDF applied to an argument. *)
NormalCDF ==
    /\ pc \in {"idle", "evaluated"}
    /\ Len(cdf) < MaxEvaluated
    /\ \E x \in NormalArgs :
         cdf' = Append(cdf, [x |-> x, value |-> normalCDFValue(x)])
    /\ pc' = "evaluated"
    /\ UNCHANGED <<spot, contracts, chain, derived, request, strategies, greeks,
                   version, inflight>>

---------------------------------------------------------------------------
(* Specifications *)

(* chain builder and chain analytics over feeds of varied open interest *)
Init == InitWith({250}, Feeds(AnalyticsContracts))
Next == GetOptionsChain \/ Rederive
Spec == Init /\ [][Next]_vars

(* the same operations over feeds of several expiries and volatilities *)
InitSkew == InitWith({250}, Feeds(SkewContracts))
SpecSkew == InitSkew /\ [][Next]_vars

(* the same operations over feeds with and without greeks *)
InitBuilder == InitWith({250}, Feeds(BuilderContracts))
SpecBuilder == InitBuilder /\ [][Next]_vars

(* the same operations over feeds with invalid and expired input *)
InitValidation == InitWith(ValidationSpots, Feeds(ValidationContracts))
SpecValidation == InitValidation /\ [][Next]_vars

(* the recommender *)
InitRecommender == InitWith({250}, Feeds(RecommenderContracts))
NextRecommender == AnalyzeOptionStrategies
SpecRecommender == InitRecommender /\ [][NextRecommender]_vars

(* the recommender over the feeds of the end-to-end scenario: spot 100,     *)
(* strikes 95 and 105, premium 3 *)
InitScenario == InitWith({ScenarioSpot}, Feeds(ScenarioContracts))
SpecScenario == InitScenario /\ [][NextRecommender]_vars

(* the pricing math *)
InitPricing == InitWith(Spots, PricingFeeds)
NextPricing == CalculateGreeks
SpecPricing == InitPricing /\ [][NextPricing]_vars

(* the long-call constructor and its payoff chart *)
InitCatalog == InitWith(Spots, {<<c>> : c \in CatalogCalls})
NextCatalog == CreateLongCall
SpecCatalog == InitCatalog /\ [][NextCatalog]_vars

(* a holder of a built chain next to feed refreshes and a second call *)
InitRefresh == InitWith(RefreshSpots, Feeds(RefreshContracts))
NextRefresh ==
    \/ GetOptionsChain
    \/ Rederive
    \/ FeedRefresh
    \/ AwaitUnderlyingPrice
    \/ AwaitOptionContracts
SpecRefresh == InitRefresh /\ [][NextRefresh]_vars

(* the normal distribution *)
InitNormal == InitWith({250}, {<<>>})
NextNormal == NormalCDF
SpecNormal == InitNormal /\ [][NextNormal]_vars

---------------------------------------------------------------------------
(* Properties of the chain analytics *)

ChainCalls == {chain.calls[i].value : i \in 1..Len(chain.calls)}
ChainPuts == {chain.puts[i].value : i \in 1..Len(chain.puts)}
ChainStrikes == Range(chain.strikes)

RECURSIVE SumOI(_, _)
SumOI(entries, weight) ==
    IF entries = <<>> THEN 0
    ELSE weight[Head(entries).value.strike] * Head(entries).value.openInterest
         + SumOI(Tail(entries), weight)

(* the total pain of settling at S, as the design document defines it *)
PainAt(S) ==
    SumOI(chain.calls, [K \in Strikes |-> IF K # S /\ S > K THEN S - K ELSE 0])
    + SumOI(chain.puts, [K \in Strikes |-> IF K # S /\ K > S THEN K - S ELSE 0])

(* C1: the max-pain strike of a built chain with strikes is a strike of the *)
(* chain of minimal total pain, and the lowest of the strikes of minimal pain. *)
C1_MaxPainMinimizes ==
    (pc = "built" /\ ChainStrikes # {}) =>
        /\ chain.maxPain \in ChainStrikes
        /\ \A S \in ChainStrikes : PainAt(chain.maxPain) <= PainAt(S)
        /\ \A S \in ChainStrikes :
              PainAt(S) = PainAt(chain.maxPain) => chain.maxPain <= S

(* a chain of three strikes in which two strikes tie for the minimal pain, *)
(* the lower one was returned and the third strike has more pain *)
C1_Witness ==
    /\ pc = "built"
    /\ Cardinality(ChainStrikes) = 3
    /\ \E S \in ChainStrikes :
          S > chain.maxPain /\ PainAt(S) = PainAt(chain.maxPain)
    /\ \E S \in ChainStrikes : PainAt(S) > PainAt(chain.maxPain)

(* all open interest of the chain sits at strike K0 *)
ConcentratedAt(K0) ==
    /\ \A c \in ChainCalls \cup ChainPuts : c.strike # K0 => c.openInterest = 0
    /\ \E c \in ChainCalls \cup ChainPuts : c.strike = K0 /\ c.openInterest > 0

PutInterestAt(K0) == \E c \in ChainPuts : c.strike = K0 /\ c.openInterest > 0

(* C2 as stated: with all open interest at one strike K0, on calls, on puts *)
(* or on both, the max-pain strike is K0.                                   *)
C2_ConcentratedIsMaxPain ==
    pc = "built" =>
        \A K0 \in ChainStrikes : ConcentratedAt(K0) => chain.maxPain = K0

(* C2 amended: with all open interest at K0, the max-pain strike is K0 when *)
(* a put at K0 carries interest; when only calls do, it is the lowest strike *)
(* of the chain (every strike up to K0 has pain 0).                         *)
C2_ConcentratedAmended ==
    pc = "built" =>
        \A K0 \in ChainStrikes : ConcentratedAt(K0) =>
            /\ PutInterestAt(K0) => chain.maxPain = K0
            /\ ~PutInterestAt(K0) =>
                  /\ chain.maxPain = chain.strikes[1]
                  /\ \A S \in ChainStrikes : chain.maxPain <= S

(* interest on puts only at K0, with a lower and no need of a higher strike *)
C2_Witness ==
    /\ pc = "built"
    /\ \E K0 \in ChainStrikes :
          /\ ConcentratedAt(K0)
          /\ PutInterestAt(K0)
          /\ \E S \in ChainStrikes : S # K0
          /\ chain.maxPain = K0

TotalOI(entries) == SumOI(entries, [K \in Strikes |-> 1])

(* C3: the put/call ratio of a built chain is put interest over call interest, *)
(* finite, and the number 0 when the call interest is 0.                    *)
C3_PutCallRatio ==
    pc = "built" =>
        /\ chain.pcr.d > 0
        /\ chain.pcr.n * TotalOI(chain.calls) = TotalOI(chain.puts) * chain.pcr.d
              \/ TotalOI(chain.calls) = 0
        /\ TotalOI(chain.calls) = 0 => chain.pcr.n = 0

(* put interest with no call interest at all *)
C3_Witness ==
    /\ pc = "built"
    /\ TotalOI(chain.calls) = 0
    /\ TotalOI(chain.puts) > 0
    /\ chain.pcr.n = 0

TwoSidedStrikes ==
    {K \in ChainStrikes :
        /\ \E c \in ChainCalls : c.strike = K /\ c.expiry = chain.expiries[1]
        /\ \E c \in ChainPuts : c.strike = K /\ c.expiry = chain.expiries[1]}

C6_Rederivation ==
    /\ [](\A i \in 1..Len(derived) :
            /\ derived[i] = derived[1]
            /\ derived[i].maxPain = chain.maxPain
            /\ derived[i].pcr = chain.pcr
            /\ derived[i].volatilitySkew = chain.volatilitySkew)
    /\ [][pc = "built" => chain' = chain]_vars

(* two re-derivations in a row from a chain with a skew point *)
C6_Witness ==
    /\ pc = "built"
    /\ Len(derived) = 2
    /\ Len(chain.volatilitySkew) > 0
    /\ Cardinality(ChainStrikes) > 1

---------------------------------------------------------------------------
(* Properties of the chain builder *)

BlackScholesGreeks(c) ==
    LET sigma == IF c.impliedVolatility = 0 THEN DefaultIV ELSE c.impliedVolatility
        T == getTimeToExpiry(c.expiry)
    IN [delta |-> IF c.type = "CALL"
                  THEN BS("delta", spot, c.strike, riskFreeRate, T, sigma, "")
                  ELSE Plus(BS("delta", spot, c.strike, riskFreeRate, T, sigma, ""), -1),
        gamma |-> BS("gamma", spot, c.strike, riskFreeRate, T, sigma, ""),
        theta |-> BS("theta", spot, c.strike, riskFreeRate, T, sigma, c.type),
        vega |-> BS("vega", spot, c.strike, riskFreeRate, T, sigma, ""),
        rho |-> BS("rho", spot, c.strike, riskFreeRate, T, sigma, c.type)]

GreeksOf(c) ==
    [delta |-> c.delta, gamma |-> c.gamma, theta |-> c.theta, vega |-> c.vega,
     rho |-> c.rho]

(* C5: getOptionsChain does not fail on a feed with a zero-delta contract,   *)
(* and when it has completed no contract is left with delta 0: a contract    *)
(* whose greeks were filled in carries the Black-Scholes values of the spot, *)
(* its strike, expiry and type and its own (or the default) volatility.      *)
C5_ZeroDeltaBackfilled ==
    /\ pc = "failed" => \A i \in 1..Len(contracts) : contracts[i].delta # Lit(0)
    /\ pc = "built" =>
          \A i \in 1..Len(contracts) :
             /\ contracts[i].delta # Lit(0)
             /\ contracts[i].delta.kind # "lit" =>
                   GreeksOf(contracts[i]) = BlackScholesGreeks(contracts[i])

---------------------------------------------------------------------------
(* Properties of the long-call constructor and the payoff chart *)

LongCall == strategies[1]
Chart == strategies[1].payoffChart
SamplingStep == Chart[2].underlyingPrice - Chart[1].underlyingPrice

(* C7: the long call built from a call of strike K and premium P has the one *)
(* breakeven K + P, maxLoss P, unbounded maxProfit and the single leg BUY 1  *)
(* of that call.                                                            *)
C7_LongCallClosedForm ==
    pc = "created" =>
        \E i \in 1..Len(contracts) :
            LET call == contracts[i]
            IN /\ call.type = "CALL"
               /\ LongCall.breakeven = <<call.strike + call.ltp>>
               /\ LongCall.maxLoss = call.ltp
               /\ LongCall.maxProfit = Infinity
               /\ LongCall.legs = <<[action |-> "BUY", contract |-> call, quantity |-> 1]>>

(* a long call with a premium *)
C7_Witness ==
    /\ pc = "created"
    /\ LongCall.maxLoss > 0
    /\ LongCall.breakeven[1] > LongCall.legs[1].contract.strike

IsClosestSample(i, price) ==
    \A j \in 1..Len(Chart) :
        Abs(Chart[i].underlyingPrice - price) <= Abs(Chart[j].underlyingPrice - price)

(* C8: when the breakeven K + P of a long call lies within the sampled range, *)
(* a sample closest to it has |pnl| of at most one sampling step.            *)
C8_PayoffAtBreakeven ==
    pc = "created" =>
        LET breakeven == LongCall.breakeven[1]
        IN (Chart[1].underlyingPrice <= breakeven
              /\ breakeven <= Chart[Len(Chart)].underlyingPrice) =>
           \A i \in 1..Len(Chart) :
               IsClosestSample(i, breakeven) => Abs(Chart[i].pnl) <= SamplingStep

(* a breakeven strictly between two samples, with a premium above one step *)
C8_Witness ==
    /\ pc = "created"
    /\ Chart[1].underlyingPrice <= LongCall.breakeven[1]
    /\ LongCall.breakeven[1] <= Chart[Len(Chart)].underlyingPrice
    /\ LongCall.maxLoss > SamplingStep
    /\ \E i \in 1..Len(Chart) :
          IsClosestSample(i, LongCall.breakeven[1]) /\ Chart[i].pnl # 0

(* C9: the payoff chart of a positive spot has exactly 50 samples, evenly    *)
(* spaced and strictly ascending, from spot - 40% to spot + 40%.             *)
C9_FiftySamples ==
    pc = "created" =>
        /\ Len(Chart) = 50
        /\ Chart[1].underlyingPrice = spot - (spot * 2) \div 5
        /\ Chart[Len(Chart)].underlyingPrice = spot + (spot * 2) \div 5
        /\ \A i \in 1..(Len(Chart) - 1) :
              /\ Chart[i].underlyingPrice < Chart[i + 1].underlyingPrice
              /\ Chart[i + 1].underlyingPrice - Chart[i].underlyingPrice = SamplingStep

---------------------------------------------------------------------------
(* Properties of the recommender *)

StrategyNames == {strategies[i].name : i \in 1..Len(strategies)}
AnalyzedChain == getOptionsChain(Underlying).chain
HasNearCall(K) == MapHas(AnalyzedChain.calls, Key(K, AnalyzedChain.expiries[1]))
HasNearPut(K) == MapHas(AnalyzedChain.puts, Key(K, AnalyzedChain.expiries[1]))
AtmStrike == getATMStrike(AnalyzedChain).ret
OtmCallStrike == getOTMStrike(AnalyzedChain, "CALL", 1)
OtmPutStrike == getOTMStrike(AnalyzedChain, "PUT", 1)

(* C10: a bullish result holds the long call and the bull-call spread when   *)
(* their contracts exist and a cash-secured put only for tolerance HIGH; a   *)
(* bearish result the long put, the bear-put spread and a covered call only  *)
(* for HIGH; a neutral result only iron condor, straddle and butterfly.      *)
(* Under LOW or MEDIUM no result holds a cash-secured put or a covered call. *)
C10_SelectionByOutlook ==
    pc = "analyzed" =>
        LET high == request.riskTolerance = "HIGH"
        IN /\ request.marketOutlook = "BULLISH" =>
                 /\ StrategyNames \subseteq
                       {"Long Call", "Bull Call Spread", "Cash Secured Put"}
                 /\ "Long Call" \in StrategyNames <=> HasNearCall(AtmStrike)
                 /\ "Bull Call Spread" \in StrategyNames
                       <=> (HasNearCall(AtmStrike) /\ HasNearCall(OtmCallStrike))
                 /\ "Cash Secured Put" \in StrategyNames
                       <=> (high /\ HasNearPut(OtmPutStrike))
           /\ request.marketOutlook = "BEARISH" =>
                 /\ StrategyNames \subseteq
                       {"Long Put", "Bear Put Spread", "Covered Call"}
                 /\ "Long Put" \in StrategyNames <=> HasNearPut(AtmStrike)
                 /\ "Bear Put Spread" \in StrategyNames
                       <=> (HasNearPut(AtmStrike) /\ HasNearPut(OtmPutStrike))
                 /\ "Covered Call" \in StrategyNames
                       <=> (high /\ HasNearCall(OtmCallStrike))
           /\ request.marketOutlook = "NEUTRAL" =>
                 /\ StrategyNames \subseteq
                       {"Iron Condor", "Straddle", "Butterfly Spread"}
                 /\ "Straddle" \in StrategyNames
                       <=> (HasNearCall(AtmStrike) /\ HasNearPut(AtmStrike))
           /\ ~high =>
                 /\ "Cash Secured Put" \notin StrategyNames
                 /\ "Covered Call" \notin StrategyNames

(* a bullish MEDIUM request on a chain whose out-of-the-money put exists:    *)
(* the long call is returned, the cash-secured put is not *)
C10_Witness ==
    /\ pc = "analyzed"
    /\ request = [marketOutlook |-> "BULLISH", riskTolerance |-> "MEDIUM"]
    /\ HasNearPut(OtmPutStrike)
    /\ StrategyNames = {"Long Call"}

---------------------------------------------------------------------------
(* Properties of the order and the completeness of the recommendation *)

(* what the generator of the requested outlook pushed, before the sort *)
Generated ==
    IF request.marketOutlook = "BULLISH"
    THEN generateBullishStrategies(AnalyzedChain, request.riskTolerance).ret
    ELSE IF request.marketOutlook = "BEARISH"
    THEN generateBearishStrategies(AnalyzedChain, request.riskTolerance).ret
    ELSE generateNeutralStrategies(AnalyzedChain, request.riskTolerance).ret

(* numbers as [n, d]: NaN, +Infinity, and a >= b as JavaScript compares them *)
IsNaN(x) == x.d = 0 /\ x.n = 0
IsInfinity(x) == x.d = 0 /\ x.n > 0
IsFinite(x) == x.d # 0
RatioGE(a, b) ==
    IF IsNaN(a) \/ IsNaN(b) THEN FALSE
    ELSE IF a.d = 0 THEN a.n > 0 \/ (b.d = 0 /\ b.n < 0)
    ELSE IF b.d = 0 THEN b.n < 0
    ELSE a.n * b.d >= b.n * a.d

(* C11: the list analyzeOptionStrategies returns holds exactly the strategies *)
(* that were constructed; each strategy's riskReward is >= that of the next;  *)
(* every strategy with riskReward = Infinity precedes every strategy with a   *)
(* finite riskReward.                                                         *)
C11_SortedByRiskReward ==
    pc = "analyzed" =>
        /\ Len(strategies) = Len(Generated)
        /\ Range(strategies) = Range(Generated)
        /\ \A i \in 1..(Len(strategies) - 1) :
              RatioGE(strategies[i].riskReward, strategies[i + 1].riskReward)
        /\ \A i, j \in 1..Len(strategies) :
              (IsInfinity(strategies[i].riskReward)
                 /\ IsFinite(strategies[j].riskReward)) => i < j

(* C12: analyzeOptionStrategies never fails on a chain that lacks a contract *)
(* a strategy needs, a chain without strikes or expiries included: it returns *)
(* a list, possibly empty, and every leg of a returned strategy is a contract *)
(* of the feed at the nearest expiry.                                        *)
C12_MissingContractSkipped ==
    /\ pc # "threw"
    /\ pc = "analyzed" =>
          \A i \in 1..Len(strategies) :
             \A l \in 1..Len(strategies[i].legs) :
                /\ strategies[i].legs[l].contract \in Range(contracts)
                /\ strategies[i].legs[l].contract.expiry = AnalyzedChain.expiries[1]

BoughtStrikes(s) == {s.legs[l].contract.strike : l \in {m \in 1..Len(s.legs) : s.legs[m].action = "BUY"}}
SoldStrikes(s) == {s.legs[l].contract.strike : l \in {m \in 1..Len(s.legs) : s.legs[m].action = "SELL"}}

(* C13: a returned bull-call spread sells a call of a strike strictly above  *)
(* the strike of the call it buys, a returned bear-put spread sells a put of *)
(* a strike strictly below the strike of the put it buys; so no spread is    *)
(* returned when the at-the-money strike is the highest, resp. lowest.       *)
C13_NoSubstitutedStrike ==
    pc = "analyzed" =>
        \A i \in 1..Len(strategies) :
           /\ strategies[i].name = "Bull Call Spread" =>
                 \A b \in BoughtStrikes(strategies[i]), s \in SoldStrikes(strategies[i]) : s > b
           /\ strategies[i].name = "Bear Put Spread" =>
                 \A b \in BoughtStrikes(strategies[i]), s \in SoldStrikes(strategies[i]) : s < b

ScenarioCall == ScenarioContract(13125, "CALL")
ScenarioPut == ScenarioContract(11875, "PUT")

(* the end-to-end scenario: spot 100, the feed holds only the call at 105 and *)
(* the put at 95, and analyzeOptionStrategies(XYZ, BEARISH, MEDIUM) has      *)
(* settled                                                                   *)
ScenarioSettled ==
    /\ pc \in {"analyzed", "threw"}
    /\ spot = ScenarioSpot
    /\ Len(contracts) = 2
    /\ Range(contracts) = {ScenarioCall, ScenarioPut}
    /\ request = [marketOutlook |-> "BEARISH", riskTolerance |-> "MEDIUM"]

---------------------------------------------------------------------------
(* Properties of the builder's input validation *)

(* C15: getOptionsChain returns no chain when the spot price is <= 0 or a    *)
(* contract of the feed names an underlying other than the requested one.   *)
C15_ValidationFailsFast ==
    (spot <= 0 \/ \E i \in 1..Len(contracts) : contracts[i].symbol # Underlying)
        => pc # "built"

(* the contracts of the feed that have not expired at build time (day 0) *)
LiveContracts == {c \in Range(contracts) : c.expiry >= 0}

(* C16: a built chain holds no contract whose expiry is in the past, and its *)
(* expiries and strikes are those of the contracts that have not expired, so *)
(* chain.expiries[0] is not in the past.                                     *)
C16_PastExpiriesDropped ==
    pc = "built" =>
        /\ \A c \in ChainCalls \cup ChainPuts : c.expiry >= 0
        /\ Range(chain.expiries) = {c.expiry : c \in LiveContracts}
        /\ ChainStrikes = {c.strike : c \in LiveContracts}
        /\ Len(chain.expiries) > 0 => chain.expiries[1] >= 0

---------------------------------------------------------------------------
(* Properties of the pricing math *)

(* the arguments d1 was computed from at line 143 *)
SpotOf(g) == g.d1[2]
StrikeOf(g) == g.d1[3]
TimeOf(g) == g.d1[5]
SigmaOf(g) == g.d1[6]
ComputedGreeks(g) == {g.greeks.delta, g.greeks.gamma, g.greeks.theta, g.greeks.vega, g.greeks.rho}

OneDay == 1000

(* C18: the time to expiry is never below one day, 1/365 year, and is exactly *)
(* one day for every expiry at or before now + 1 day.                        *)
C18_OneDayFloor ==
    \A j \in 1..Len(greeks) :
        /\ TimeOf(greeks[j]) >= OneDay
        /\ greeks[j].contract.expiry <= 1 => TimeOf(greeks[j]) = OneDay

(* outcomes a and b are of a call and of a put at identical S, K, r, T, sigma *)
CallAndPutAlike(a, b) ==
    /\ greeks[a].contract.type = "CALL"
    /\ greeks[b].contract.type = "PUT"
    /\ Tail(greeks[a].d1) = Tail(greeks[b].d1)

(* C19: calculateGreeks returns a delta for a call and for a put at identical *)
(* parameters, and the call's delta minus the put's delta is 1.              *)
C19_DeltaParity ==
    \A a, b \in 1..Len(greeks) :
        CallAndPutAlike(a, b) =>
           /\ ~greeks[a].threw /\ ~greeks[b].threw
           /\ greeks[a].greeks.delta.kind = greeks[b].greeks.delta.kind
           /\ greeks[a].greeks.delta.of = greeks[b].greeks.delta.of
           /\ greeks[a].greeks.delta.val - greeks[b].greeks.delta.val = 1

(* C20: calculateGreeks returns greeks for a call and for a put at identical *)
(* parameters, and the two gammas are equal and the two vegas are equal.     *)
C20_TypeIndependence ==
    \A a, b \in 1..Len(greeks) :
        CallAndPutAlike(a, b) =>
           /\ greeks[a].threw = FALSE /\ greeks[b].threw = FALSE
           /\ greeks[a].greeks.gamma = greeks[b].greeks.gamma
           /\ greeks[a].greeks.vega = greeks[b].greeks.vega
           /\ greeks[a].greeks.gamma.kind = "gamma"
           /\ greeks[a].greeks.vega.kind = "vega"

---------------------------------------------------------------------------
(* Properties of the normal distribution *)

(* 1e-6, in the unit of normalCDFValue *)
Tolerance == 2 * (ErfUnit \div 1000000)
Near(a, b) == Abs(a - b) <= Tolerance

(* C21: normalCDF(0) is 0.5, normalCDF(-x) is 1 - normalCDF(x), both within *)
(* 1e-6, and every value of normalCDF lies in [0, 1].                       *)
C21_NormalSymmetry ==
    \A i \in 1..Len(cdf) :
       /\ cdf[i].value >= 0 /\ cdf[i].value <= 2 * ErfUnit
       /\ cdf[i].x = 0 => Near(cdf[i].value, ErfUnit)
       /\ \A j \in 1..Len(cdf) :
             cdf[j].x = -cdf[i].x => Near(cdf[j].value, 2 * ErfUnit - cdf[i].value)

(* witness: normalCDF evaluated at an argument and at its negative *)
C21_Witness ==
    /\ Len(cdf) = 2
    /\ cdf[1].x > 0 /\ cdf[2].x = -cdf[1].x
    /\ cdf[1].value > ErfUnit /\ cdf[2].value < ErfUnit

---------------------------------------------------------------------------
(* Properties of the refresh *)

(* the contract objects the maps of a chain hold *)
HeldContracts(ch) ==
    {ch.calls[i].value : i \in 1..Len(ch.calls)}
        \cup {ch.puts[i].value : i \in 1..Len(ch.puts)}

(* C22: while a reader holds a returned chain, no step of a feed refresh   *)
(* or of a second getOptionsChain call changes a field of that chain or of *)
(* a contract object in its maps; the second call returns another chain.   *)
C22_EarlierChainKept ==
    /\ [](pc = "built" => HeldContracts(chain) \subseteq Range(contracts))
    /\ [][pc = "built" =>
            /\ chain' = chain
            /\ Len(contracts') >= Len(contracts)
            /\ \A i \in 1..Len(contracts) : contracts'[i] = contracts[i]]_vars

(* witness: a chain was returned and is held; the feed then delivered a    *)
(* snapshot with another spot and one more contract, and a second call     *)
(* returned a chain built from it                                          *)
C22_Witness ==
    /\ pc = "built"
    /\ inflight.stage = "returned"
    /\ inflight.priceVersion = 1 /\ inflight.contractsVersion = 1
    /\ inflight.chain.underlyingPrice # chain.underlyingPrice
    /\ HeldContracts(chain) # {}
    /\ HeldContracts(chain) \subseteq HeldContracts(inflight.chain)
    /\ HeldContracts(chain) # HeldContracts(inflight.chain)

(* C29: a chain returned by getOptionsChain pairs the spot price and the   *)
(* contract list of one feed snapshot.                                     *)
C29_SameSnapshot ==
    inflight.stage = "returned" => inflight.priceVersion = inflight.contractsVersion

---------------------------------------------------------------------------
(* Properties of the strategies returned *)

NearCall(K) == MapGet(AnalyzedChain.calls, Key(K, AnalyzedChain.expiries[1]))

Intrinsic(contract, price) ==
    IF contract.type = "CALL" THEN Max(0, price - contract.strike)
    ELSE Max(0, contract.strike - price)

RECURSIVE LegsPnl(_, _)
LegsPnl(legs, price) ==
    IF legs = <<>> THEN 0
    ELSE LET leg == Head(legs)
         IN (IF leg.action = "BUY"
             THEN leg.quantity * (Intrinsic(leg.contract, price) - leg.contract.ltp)
             ELSE leg.quantity * (leg.contract.ltp - Intrinsic(leg.contract, price)))
            + LegsPnl(Tail(legs), price)

(* a BUY and a SELL leg of the same contract and quantity, and nothing else *)
Offsetting(legs) ==
    /\ Len(legs) = 2
    /\ {legs[1].action, legs[2].action} = {"BUY", "SELL"}
    /\ legs[1].contract = legs[2].contract
    /\ legs[1].quantity = legs[2].quantity

(* C25: at every sample of a strategy's payoff chart the pnl is the sum    *)
(* over its legs of quantity * (intrinsic - premium) for a BUY leg and     *)
(* quantity * (premium - intrinsic) for a SELL leg; so the chart of a BUY  *)
(* and a SELL leg of one contract and quantity is 0 at every sample.       *)
C25_PayoffIsSumOfLegs ==
    pc = "analyzed" =>
        \A i \in 1..Len(strategies) :
           \A k \in 1..Len(strategies[i].payoffChart) :
              LET sample == strategies[i].payoffChart[k]
              IN /\ sample.pnl = LegsPnl(strategies[i].legs, sample.underlyingPrice)
                 /\ Offsetting(strategies[i].legs) => sample.pnl = 0

(* witness: a strategy that buys and sells the same contract, charted, next *)
(* to a strategy of one leg whose chart is not constant                     *)
C25_Witness ==
    /\ pc = "analyzed"
    /\ \E i, j \in 1..Len(strategies) :
          /\ Offsetting(strategies[i].legs)
          /\ Len(strategies[i].payoffChart) > 1
          /\ Len(strategies[j].legs) = 1
          /\ \E k \in 1..Len(strategies[j].payoffChart) :
                strategies[j].payoffChart[k].pnl # strategies[j].payoffChart[1].pnl

(* C30: the chart of a long call of premium P >= 0 never falls below       *)
(* -maxLoss, is -maxLoss at every sample price up to the strike, and does  *)
(* not decrease as the price grows.                                        *)
C30_LongCallFloor ==
    (pc = "created" /\ LongCall.legs[1].contract.ltp >= 0) =>
        \A i \in 1..Len(Chart) :
           /\ Chart[i].pnl >= 0 - LongCall.maxLoss
           /\ Chart[i].underlyingPrice <= LongCall.legs[1].contract.strike
                 => Chart[i].pnl = 0 - LongCall.maxLoss
           /\ i < Len(Chart) => Chart[i].pnl <= Chart[i + 1].pnl

(* witness: a positive premium, samples on both sides of the strike *)
C30_Witness ==
    /\ pc = "created"
    /\ LongCall.maxLoss > 0
    /\ Chart[1].underlyingPrice < LongCall.legs[1].contract.strike
    /\ Chart[Len(Chart)].underlyingPrice > LongCall.legs[1].contract.strike
    /\ Chart[Len(Chart)].pnl > 0

---------------------------------------------------------------------------
(* Properties of the maps and of the strike selection *)

SameSlot(a, b) == a.type = b.type /\ a.strike = b.strike /\ a.expiry = b.expiry
MapOf(ch, type) == IF type = "CALL" THEN ch.calls ELSE ch.puts
WellKeyed(m, type) ==
    /\ \A i \in 1..Len(m) :
          /\ m[i].value.type = type
          /\ m[i].key = Key(m[i].value.strike, m[i].value.expiry)
    /\ \A i, j \in 1..Len(m) : m[i].key = m[j].key => i = j

(* C27: every entry of chain.calls is a CALL and every entry of chain.puts *)
(* a PUT, stored under the key of its own strike and expiry, one entry per *)
(* key; every contract of the input is the entry of its key in the map of  *)
(* its type, unless a later contract of the same type, strike and expiry   *)
(* replaced it, and is no entry of the other map.                          *)
C27_MapsByType ==
    pc = "built" =>
        /\ WellKeyed(chain.calls, "CALL")
        /\ WellKeyed(chain.puts, "PUT")
        /\ \A i \in 1..Len(contracts) :
              LET c == contracts[i]
                  k == Key(c.strike, c.expiry)
                  last == CHOOSE j \in i..Len(contracts) :
                             /\ SameSlot(contracts[j], c)
                             /\ \A n \in (j + 1)..Len(contracts) :
                                   ~SameSlot(contracts[n], c)
              IN /\ MapHas(MapOf(chain, c.type), k)
                 /\ MapGet(MapOf(chain, c.type), k) = contracts[last]
                 /\ c \notin {e.value : e \in
                        Range(MapOf(chain, IF c.type = "CALL" THEN "PUT" ELSE "CALL"))}

(* witness: two calls of one strike and expiry that differ, the later one  *)
(* stored, and a put under the same key                                    *)
C27_Witness ==
    /\ pc = "built"
    /\ Len(contracts) = 3
    /\ SameSlot(contracts[1], contracts[2])
    /\ contracts[1] # contracts[2]
    /\ contracts[1].type = "CALL" /\ contracts[3].type = "PUT"
    /\ contracts[3].strike = contracts[1].strike
    /\ Len(chain.calls) = 1 /\ chain.calls[1].value = contracts[2]
    /\ Len(chain.puts) = 1

Distance(K) == Abs(K - AnalyzedChain.underlyingPrice)

(* C28: on a chain with strikes getATMStrike returns a strike of the chain *)
(* that no other strike is closer to the spot than, the first of them in   *)
(* chain.strikes when several are; getOTMStrike returns a strike of the    *)
(* chain, not below the ATM strike for CALL and not above it for PUT.      *)
C28_StrikeSelection ==
    pc = "analyzed" =>
        \E ac \in {AnalyzedChain} :
        \E atm \in {getATMStrike(ac).ret},
           otmCall \in {getOTMStrike(ac, "CALL", 1)},
           otmPut \in {getOTMStrike(ac, "PUT", 1)} :
           /\ atm \in Range(ac.strikes)
           /\ \A K \in Range(ac.strikes) :
                 Abs(atm - ac.underlyingPrice) <= Abs(K - ac.underlyingPrice)
           /\ \A j \in 1..(IndexOf(ac.strikes, atm) - 1) :
                 Abs(ac.strikes[j] - ac.underlyingPrice) > Abs(atm - ac.underlyingPrice)
           /\ otmCall \in Range(ac.strikes)
           /\ otmCall >= atm
           /\ otmPut \in Range(ac.strikes)
           /\ otmPut <= atm

(* witness: two strikes equally close to the spot, the first one chosen,   *)
(* the other one the OTM strike of a call                                  *)
C28_Witness ==
    /\ pc = "analyzed"
    /\ Len(AnalyzedChain.strikes) = 2
    /\ Distance(AnalyzedChain.strikes[1]) = Distance(AnalyzedChain.strikes[2])
    /\ AtmStrike = AnalyzedChain.strikes[1]
    /\ OtmCallStrike = AnalyzedChain.strikes[2]
    /\ OtmPutStrike = AtmStrike

====
